---- MODULE Spec2Model ----
(***************************************************************************)
(* Noise transport session of keynesis-core (noise/transport_state.rs):    *)
(* two parties that completed one IK handshake each own a TransportState   *)
(* (handshake hash, local CipherState, remote CipherState, remote id),     *)
(* may split it into a send half and a receive half, and exchange          *)
(* messages over a network that can replay, reorder and tamper.            *)
(*                                                                         *)
(* CipherState (noise/cipher_state.rs) is used by transport_state.rs but   *)
(* its code is not part of the sources at hand; it is modelled from the    *)
(* design document (sections 3 and 4.4).  Keys and tags are symbolic       *)
(* terms: a key is (base, gen) with gen the number of one-way rekey        *)
(* derivations applied to base, a tag is the term Mac(k, n, ad, body).     *)
(* Message bytes are abstracted to the two-valued alphabet Bytes and the   *)
(* stream cipher to an additive keystream over it.                         *)
(***************************************************************************)
EXTENDS Integers, Sequences, FiniteSets, TLC

\* ------------------------------------------------------------------ bounds
MaxMsgs == 2             \* successful sends, both directions together

\* ------------------------------------------------------- program constants
TAG_LEN == 16            \* CipherState::TAG_LEN

Parties == {"initiator", "responder"}
Other(p) == IF p = "initiator" THEN "responder" ELSE "initiator"

Bytes == {0, 1}
ByteMod == Cardinality(Bytes)
\* the messages a caller sends: the empty one and a two-byte one
Plaintexts == {<<>>, <<0, 1>>}

\* what the handshake leaves behind: session hashes, static identities, and
\* the number of encrypt/decrypt uses the handshake made of the cipher
Identity(p) == IF p = "initiator" THEN "pk_initiator" ELSE "pk_responder"
HandshakeRuns == {[hash |-> "h1", uses |-> 0], [hash |-> "h2", uses |-> 1]}
\* base of the key protecting the traffic sent by p
DirectionKey(p) == IF p = "initiator" THEN 1 ELSE 2

\* output buffer lengths a caller may pass for an input that needs `needed`
\* bytes of output: one byte short, exact, one byte more
BufLens(needed) == {n \in {needed - 1, needed, needed + 1} : n >= 0}

NoOutput == [kind |-> "none"]
Moved == [moved |-> TRUE]

\* ------------------------------------------------------------ CipherState
Key(base, gen) == [base |-> base, gen |-> gen]

CipherState_new(k, n) == [k |-> k, n |-> n]

nonce(cs) == cs.n

\* one-way derivation of the key; the nonce restarts for the new key
rekey(cs) == [k |-> Key(cs.k.base, cs.k.gen + 1), n |-> 0]

KeyStream(k, n, i) == (k.base + k.gen + n + i) % ByteMod

Mac(k, n, ad, body) == [k |-> k, n |-> n, ad |-> ad, body |-> body, flip |-> 0]

CtLen(ct) == Len(ct.body) + TAG_LEN

encrypt_with_ad(cs, ad, input, outlen) ==
    IF outlen < Len(input) + TAG_LEN
    THEN [ok |-> FALSE, cs |-> cs, out |-> NoOutput]
    ELSE LET body == [i \in 1..Len(input) |->
                        (input[i] + KeyStream(cs.k, cs.n, i)) % ByteMod]
         IN  [ok |-> TRUE,
              cs |-> [cs EXCEPT !.n = @ + 1],
              out |-> [kind |-> "ct",
                       ct |-> [body |-> body, tag |-> Mac(cs.k, cs.n, ad, body)]]]

decrypt_with_ad(cs, ad, input, outlen) ==
    IF \/ outlen + TAG_LEN < CtLen(input)
       \/ input.tag # Mac(cs.k, cs.n, ad, input.body)
    THEN [ok |-> FALSE, cs |-> cs, out |-> NoOutput]
    ELSE LET pt == [i \in 1..Len(input.body) |->
                      (input.body[i] + ByteMod - KeyStream(cs.k, cs.n, i)) % ByteMod]
         IN  [ok |-> TRUE,
              cs |-> [cs EXCEPT !.n = @ + 1],
              out |-> [kind |-> "pt", pt |-> pt]]

\* --------------------------------------------------------- TransportState
TransportState_new(handshake_hash, local, remote, remote_id) ==
    [handshake_hash |-> handshake_hash, local |-> local,
     remote |-> remote, remote_id |-> remote_id]

\* split that hands each half the other direction's cipher state
split_swapped(self) ==
    [send |-> [handshake_hash |-> self.handshake_hash,
               local |-> self.remote,
               remote_id |-> self.remote_id],
     receive |-> [handshake_hash |-> self.handshake_hash,
                  remote |-> self.local,
                  remote_id |-> self.remote_id]]

\* split that gives the send half an empty hash instead of the clone
split_default_hash(self) ==
    [send |-> [handshake_hash |-> "h0",
               local |-> self.local,
               remote_id |-> self.remote_id],
     receive |-> [handshake_hash |-> self.handshake_hash,
                  remote |-> self.remote,
                  remote_id |-> self.remote_id]]

split(self) ==
    [send |-> [handshake_hash |-> self.handshake_hash,
               local |-> self.local,
               remote_id |-> self.remote_id],
     receive |-> [handshake_hash |-> self.handshake_hash,
                  remote |-> self.remote,
                  remote_id |-> self.remote_id]]

noise_session(self) == self.handshake_hash

remote_public_identity(self) == self.remote_id

\* count_received that reads the outbound cipher state
count_received_wrong_side(self) == nonce(self.local)

count_received(self) == nonce(self.remote)

count_sent(self) == nonce(self.local)

\* send that encrypts on a copy of the cipher state: the session never advances
TransportState_send_on_copy(self, input, outlen) ==
    LET e == encrypt_with_ad(self.local, <<>>, input, outlen)
    IN  [ok |-> e.ok, self |-> self, out |-> e.out]

\* send that drops the result of encrypt_with_ad and goes on
TransportState_send_unchecked(self, input, outlen) ==
    LET e == encrypt_with_ad(self.local, <<>>, input, outlen)
    IN  [ok |-> TRUE, self |-> [self EXCEPT !.local = rekey(e.cs)], out |-> e.out]

\* send that rekeys before looking at the result of encrypt_with_ad
TransportState_send_rekey_first(self, input, outlen) ==
    LET e == encrypt_with_ad(self.local, <<>>, input, outlen)
    IN  [ok |-> e.ok, self |-> [self EXCEPT !.local = rekey(e.cs)], out |-> e.out]

\* send that rekeys both directions of the session
TransportState_send_rekey_both(self, input, outlen) ==
    LET e == encrypt_with_ad(self.local, <<>>, input, outlen)
    IN  IF ~e.ok
        THEN [ok |-> FALSE, self |-> [self EXCEPT !.local = e.cs], out |-> e.out]
        ELSE [ok |-> TRUE,
              self |-> [self EXCEPT !.local = rekey(e.cs), !.remote = rekey(@)],
              out |-> e.out]

TransportState_send(self, input, outlen) ==
    LET e == encrypt_with_ad(self.local, <<>>, input, outlen)
    IN  IF ~e.ok
        THEN [ok |-> FALSE, self |-> [self EXCEPT !.local = e.cs], out |-> e.out]
        ELSE [ok |-> TRUE, self |-> [self EXCEPT !.local = rekey(e.cs)], out |-> e.out]

\* receive that forgets the rekey
TransportState_receive_no_rekey(self, input, outlen) ==
    LET d == decrypt_with_ad(self.remote, <<>>, input, outlen)
    IN  [ok |-> d.ok, self |-> [self EXCEPT !.remote = d.cs], out |-> d.out]

\* receive that decrypts on a copy of the cipher state
TransportState_receive_on_copy(self, input, outlen) ==
    LET d == decrypt_with_ad(self.remote, <<>>, input, outlen)
    IN  [ok |-> d.ok, self |-> self, out |-> d.out]

TransportState_receive(self, input, outlen) ==
    LET d == decrypt_with_ad(self.remote, <<>>, input, outlen)
    IN  IF ~d.ok
        THEN [ok |-> FALSE, self |-> [self EXCEPT !.remote = d.cs], out |-> d.out]
        ELSE [ok |-> TRUE, self |-> [self EXCEPT !.remote = rekey(d.cs)], out |-> d.out]

\* ------------------------------------------------------ TransportSendHalf
TransportSendHalf_noise_session(self) == self.handshake_hash

TransportSendHalf_remote_public_identity(self) == self.remote_id

TransportSendHalf_count_sent(self) == nonce(self.local)

\* send that forgets the rekey
TransportSendHalf_send_no_rekey(self, input, outlen) ==
    LET e == encrypt_with_ad(self.local, <<>>, input, outlen)
    IN  [ok |-> e.ok, self |-> [self EXCEPT !.local = e.cs], out |-> e.out]

TransportSendHalf_send(self, input, outlen) ==
    LET e == encrypt_with_ad(self.local, <<>>, input, outlen)
    IN  IF ~e.ok
        THEN [ok |-> FALSE, self |-> [self EXCEPT !.local = e.cs], out |-> e.out]
        ELSE [ok |-> TRUE, self |-> [self EXCEPT !.local = rekey(e.cs)], out |-> e.out]

\* --------------------------------------------------- TransportReceiveHalf
TransportReceiveHalf_noise_session(self) == self.handshake_hash

TransportReceiveHalf_remote_public_identity(self) == self.remote_id

TransportReceiveHalf_count_received(self) == nonce(self.remote)

\* receive that drops the result of decrypt_with_ad and goes on
TransportReceiveHalf_receive_unchecked(self, input, outlen) ==
    LET d == decrypt_with_ad(self.remote, <<>>, input, outlen)
    IN  [ok |-> TRUE, self |-> [self EXCEPT !.remote = rekey(d.cs)], out |-> d.out]

\* receive that forgets the rekey
TransportReceiveHalf_receive_no_rekey(self, input, outlen) ==
    LET d == decrypt_with_ad(self.remote, <<>>, input, outlen)
    IN  [ok |-> d.ok, self |-> [self EXCEPT !.remote = d.cs], out |-> d.out]

TransportReceiveHalf_receive(self, input, outlen) ==
    LET d == decrypt_with_ad(self.remote, <<>>, input, outlen)
    IN  IF ~d.ok
        THEN [ok |-> FALSE, self |-> [self EXCEPT !.remote = d.cs], out |-> d.out]
        ELSE [ok |-> TRUE, self |-> [self EXCEPT !.remote = rekey(d.cs)], out |-> d.out]

\* ------------------------------------------------------------------ state
VARIABLES
    party,      \* per party: the TransportState it owns, or its two halves
    wire,       \* per party: what its successful sends put on the network
    recvLog,    \* per party: what its successful receives accepted
    last,       \* the last call made and what the caller saw of it
    created,    \* per party: what the accessors returned at creation
    opening,    \* the initiator's handshake over the connection (Opening)
    kx          \* a key derivation and exchange between two root keys

vars == <<party, wire, recvLog, last, created, opening, kx>>

\* the variables of the transport session, of the handshake, of the keys
transportVars == <<party, wire, recvLog, last, created>>
NotStarted == [pc |-> "idle"]

\* a party as its owner holds it: the unsplit session, or the two halves
Whole(ts) == [mode |-> "transport", ts |-> ts, sh |-> Moved, rh |-> Moved]

\* the CipherState a party encrypts with / decrypts with, wherever it lives
LocalOf(st) == IF st.mode = "transport" THEN st.ts.local ELSE st.sh.local
RemoteOf(st) == IF st.mode = "transport" THEN st.ts.remote ELSE st.rh.remote

\* the four calls on a party's session, as steps of the party
SendStep(st, input, outlen) ==
    LET r == TransportState_send(st.ts, input, outlen)
    IN  [st |-> [st EXCEPT !.ts = r.self], ok |-> r.ok, out |-> r.out]

ReceiveStep(st, input, outlen) ==
    LET r == TransportState_receive(st.ts, input, outlen)
    IN  [st |-> [st EXCEPT !.ts = r.self], ok |-> r.ok, out |-> r.out]

\* a send half that still reaches the inbound cipher state and rekeys it too
HalfSendStep_shared(st, input, outlen) ==
    LET r == TransportSendHalf_send(st.sh, input, outlen)
    IN  [st |-> [st EXCEPT !.sh = r.self,
                           !.rh.remote = IF r.ok THEN rekey(@) ELSE @],
         ok |-> r.ok, out |-> r.out]

HalfSendStep(st, input, outlen) ==
    LET r == TransportSendHalf_send(st.sh, input, outlen)
    IN  [st |-> [st EXCEPT !.sh = r.self], ok |-> r.ok, out |-> r.out]

HalfReceiveStep(st, input, outlen) ==
    LET r == TransportReceiveHalf_receive(st.rh, input, outlen)
    IN  [st |-> [st EXCEPT !.rh = r.self], ok |-> r.ok, out |-> r.out]

SplitStep(st) ==
    LET h == split(st.ts)
    IN  [mode |-> "split", ts |-> Moved, sh |-> h.send, rh |-> h.receive]

\* the accessors of a party's session, wherever the fields live
CountSent(st) ==
    IF st.mode = "transport" THEN count_sent(st.ts) ELSE TransportSendHalf_count_sent(st.sh)

CountReceived(st) ==
    IF st.mode = "transport" THEN count_received(st.ts)
    ELSE TransportReceiveHalf_count_received(st.rh)

NoiseSessions(st) ==
    IF st.mode = "transport" THEN {noise_session(st.ts)}
    ELSE {TransportSendHalf_noise_session(st.sh), TransportReceiveHalf_noise_session(st.rh)}

RemoteIdentities(st) ==
    IF st.mode = "transport" THEN {remote_public_identity(st.ts)}
    ELSE {TransportSendHalf_remote_public_identity(st.sh),
          TransportReceiveHalf_remote_public_identity(st.rh)}

\* send / receive on whichever object the party holds
CallSend(st, input, outlen) ==
    IF st.mode = "transport" THEN SendStep(st, input, outlen)
    ELSE HalfSendStep(st, input, outlen)

CallReceive(st, input, outlen) ==
    IF st.mode = "transport" THEN ReceiveStep(st, input, outlen)
    ELSE HalfReceiveStep(st, input, outlen)

\* ---------------------------------------------------------------- network
Tampers == {"none", "body", "tag"}

Tamper(ct, t) ==
    CASE t = "body"  -> [ct EXCEPT !.body[1] = (@ + 1) % ByteMod]
      [] t = "tag"   -> [ct EXCEPT !.tag.flip = 1]
      [] OTHER       -> ct

\* what the network can hand to p: any ciphertext its peer ever produced,
\* as sent or with a bit of the body or of the tag changed
RecvChoices(p) ==
    {c \in [j : 1..Len(wire[Other(p)]), t : Tampers] :
        /\ wire[Other(p)][c.j].out.kind = "ct"
        /\ c.t = "body" => Len(wire[Other(p)][c.j].out.ct.body) > 0}

RecvInput(p, c) == Tamper(wire[Other(p)][c.j].out.ct, c.t)

TotalSent == Len(wire["initiator"]) + Len(wire["responder"])

\* ------------------------------------------------------------------- Init
Init ==
    /\ \E hs \in HandshakeRuns :
         party = [p \in Parties |->
                    Whole(TransportState_new(
                        hs.hash,
                        CipherState_new(Key(DirectionKey(p), 0), hs.uses),
                        CipherState_new(Key(DirectionKey(Other(p)), 0), hs.uses),
                        Identity(Other(p))))]
    /\ wire = [p \in Parties |-> <<>>]
    /\ recvLog = [p \in Parties |-> <<>>]
    /\ created = [p \in Parties |->
                    [session |-> noise_session(party[p].ts),
                     remote_id |-> remote_public_identity(party[p].ts),
                     sent |-> count_sent(party[p].ts),
                     received |-> count_received(party[p].ts)]]
    /\ last = [op |-> "new", ok |-> TRUE, how |-> "none", fits |-> TRUE]
    /\ opening = NotStarted
    /\ kx = NotStarted

\* ---------------------------------------------------------------- actions
Sent(p, step, input, outlen, op) ==
    /\ step.ok => TotalSent < MaxMsgs
    /\ party' = [party EXCEPT ![p] = step.st]
    /\ wire' = IF step.ok
               THEN [wire EXCEPT ![p] = Append(@, [pt |-> input, out |-> step.out,
                                                   k |-> LocalOf(party[p]).k,
                                                   n |-> LocalOf(party[p]).n])]
               ELSE wire
    /\ last' = [op |-> op, ok |-> step.ok, how |-> "none",
                fits |-> outlen >= Len(input) + TAG_LEN]
    /\ UNCHANGED <<recvLog, created, opening, kx>>

Received(p, step, c, outlen, op) ==
    /\ step.ok => Len(recvLog[p]) < MaxMsgs
    /\ party' = [party EXCEPT ![p] = step.st]
    /\ recvLog' = IF step.ok
                  THEN [recvLog EXCEPT ![p] = Append(@, [out |-> step.out,
                                                         ct |-> RecvInput(p, c),
                                                         k |-> RemoteOf(party[p]).k,
                                                         n |-> RemoteOf(party[p]).n])]
                  ELSE recvLog
    /\ last' = [op |-> op, ok |-> step.ok,
                how |-> IF c.t # "none" THEN c.t
                        ELSE IF c.j = Len(recvLog[p]) + 1 THEN "inorder"
                        ELSE IF c.j <= Len(recvLog[p]) THEN "replay" ELSE "skip",
                fits |-> outlen + TAG_LEN >= CtLen(RecvInput(p, c))]
    /\ UNCHANGED <<wire, created, opening, kx>>

Send(p) ==
    /\ party[p].mode = "transport"
    /\ \E input \in Plaintexts : \E outlen \in BufLens(Len(input) + TAG_LEN) :
         Sent(p, SendStep(party[p], input, outlen), input, outlen, "send")

Receive(p) ==
    /\ party[p].mode = "transport"
    /\ \E c \in RecvChoices(p) : \E outlen \in BufLens(Len(RecvInput(p, c).body)) :
         Received(p, ReceiveStep(party[p], RecvInput(p, c), outlen), c, outlen, "receive")

Split(p) ==
    /\ party[p].mode = "transport"
    /\ party' = [party EXCEPT ![p] = SplitStep(party[p])]
    /\ last' = [op |-> "split", ok |-> TRUE, how |-> "none", fits |-> TRUE]
    /\ UNCHANGED <<wire, recvLog, created, opening, kx>>

HalfSend(p) ==
    /\ party[p].mode = "split"
    /\ \E input \in Plaintexts : \E outlen \in BufLens(Len(input) + TAG_LEN) :
         Sent(p, HalfSendStep(party[p], input, outlen), input, outlen, "half_send")

HalfReceive(p) ==
    /\ party[p].mode = "split"
    /\ \E c \in RecvChoices(p) : \E outlen \in BufLens(Len(RecvInput(p, c).body)) :
         Received(p, HalfReceiveStep(party[p], RecvInput(p, c), outlen), c, outlen,
                  "half_receive")

Next ==
    \/ \E p \in Parties : Send(p)
    \/ \E p \in Parties : Receive(p)
    \/ \E p \in Parties : Split(p)
    \/ \E p \in Parties : HalfSend(p)
    \/ \E p \in Parties : HalfReceive(p)

Spec == Init /\ [][Next]_vars

\* ---------------------------------------------------------------- Opening
(***************************************************************************)
(* The initiator's side of the handshake over a connection                 *)
(* (keynesis-network/src/opening.rs).  Opening::new runs IK initiate and   *)
(* writes message 1; Opening::wait reads message 2, checks its version and *)
(* hands it to IK receive.  Each of the two functions suspends once, at    *)
(* its write_all / read_exact, so each is two steps.  The IK state         *)
(* machine and the codec are used through their calls only: initiate and   *)
(* receive succeed or fail, a version is supported or not.                 *)
(***************************************************************************)
Versions == {"v0", "v1", "v2"}
Payloads == {"valid", "forged", "replayed"}
Arrivals == {"complete", "short", "closed"}
WriteOutcomes == {"written", "partial", "refused"}

\* what the peer will answer, once message 1 is on its way
PeerAnswers == [version : Versions, payload : Payloads, arrival : Arrivals]

is_supported(version) == version = "v1"

\* IK<WaitB>::receive: the response authenticates, or the handshake fails
IK_receive(payload) == payload = "valid"

\* the steps of the initiator, in the order the protocol prescribes
HandshakeOrder == <<"initiate", "write", "read", "version", "ik_receive", "handle">>

Failed(o, err) == [o EXCEPT !.pc = "done", !.state = "dropped", !.result = err]

\* Opening::new up to the write_all it awaits
Opening_new_begin(o, initiated) ==
    IF ~initiated
    THEN [o EXCEPT !.pc = "done", !.result = "Err_initiate"]
    ELSE [o EXCEPT !.pc = "writing", !.state = "in_new",
                   !.events = Append(@, "initiate")]

\* new that goes on to build the Opening whatever write_all returned
Opening_new_end_unchecked(o, outcome) ==
    [o EXCEPT !.pc = "opened", !.state = "in_opening", !.result = "Opening",
              !.written = CASE outcome = "written" -> "message1"
                            [] outcome = "partial" -> "partial"
                            [] OTHER -> "nothing",
              !.events = Append(@, "write")]

\* Opening::new from the end of write_all
Opening_new_end(o, outcome) ==
    IF outcome # "written"
    THEN [Failed(o, "Err_write") EXCEPT
              !.written = IF outcome = "partial" THEN "partial" ELSE "nothing"]
    ELSE [o EXCEPT !.pc = "opened", !.state = "in_opening", !.result = "Opening",
                   !.written = "message1", !.events = Append(@, "write")]

\* Opening::wait up to the read_exact it awaits: self is taken apart
Opening_wait_begin(o) ==
    [o EXCEPT !.pc = "reading", !.state = "in_wait", !.result = "pending"]

\* wait without the version check
Opening_wait_end_any_version(o) ==
    IF o.peer.arrival # "complete"
    THEN Failed(o, "Err_read")
    ELSE LET called == [o EXCEPT !.events = @ \o <<"read", "ik_receive">>,
                                 !.ik_receive_calls = @ + 1,
                                 !.state = "consumed"]
         IN  IF ~IK_receive(o.peer.payload)
             THEN Failed(called, "Err_receive")
             ELSE [called EXCEPT !.pc = "done", !.result = "Handle",
                                 !.transport = "authenticated",
                                 !.events = Append(@, "handle")]

\* wait that checks the version only after IK receive has run
Opening_wait_end_receive_first(o) ==
    IF o.peer.arrival # "complete"
    THEN Failed(o, "Err_read")
    ELSE LET called == [o EXCEPT !.events = @ \o <<"read", "ik_receive">>,
                                 !.ik_receive_calls = @ + 1,
                                 !.state = "consumed"]
             checked == [called EXCEPT !.events = Append(@, "version")]
         IN  IF ~IK_receive(o.peer.payload)
             THEN Failed(called, "Err_receive")
             ELSE IF ~is_supported(o.peer.version)
             THEN Failed(checked, "Err_version")
             ELSE [checked EXCEPT !.pc = "done", !.result = "Handle",
                                  !.transport = "authenticated",
                                  !.events = Append(@, "handle")]

\* Opening::wait from the end of read_exact
Opening_wait_end(o) ==
    IF o.peer.arrival # "complete"
    THEN Failed(o, "Err_read")
    ELSE LET read == [o EXCEPT !.events = Append(@, "read")]
             checked == [read EXCEPT !.events = Append(@, "version")]
         IN  IF ~is_supported(o.peer.version)
             THEN Failed(checked, "Err_version")
             ELSE LET called == [checked EXCEPT !.events = Append(@, "ik_receive"),
                                                !.ik_receive_calls = @ + 1,
                                                !.state = "consumed"]
                  IN  IF ~IK_receive(o.peer.payload)
                      THEN Failed(called, "Err_receive")
                      ELSE [called EXCEPT !.pc = "done", !.result = "Handle",
                                          !.transport = "authenticated",
                                          !.events = Append(@, "handle")]

InitOpening ==
    /\ \E answer \in PeerAnswers :
         opening = [pc |-> "start", state |-> "none", written |-> "nothing",
                    result |-> "pending", transport |-> "none",
                    ik_receive_calls |-> 0, events |-> <<>>, peer |-> answer]
    /\ party = [p \in Parties |-> Moved]
    /\ wire = [p \in Parties |-> <<>>]
    /\ recvLog = [p \in Parties |-> <<>>]
    /\ created = [p \in Parties |-> Moved]
    /\ last = [op |-> "none", ok |-> TRUE, how |-> "none", fits |-> TRUE]
    /\ kx = NotStarted

NewBegin ==
    /\ opening.pc = "start"
    /\ \E initiated \in BOOLEAN : opening' = Opening_new_begin(opening, initiated)
    /\ UNCHANGED <<transportVars, kx>>

NewEnd ==
    /\ opening.pc = "writing"
    /\ \E outcome \in WriteOutcomes : opening' = Opening_new_end(opening, outcome)
    /\ UNCHANGED <<transportVars, kx>>

WaitBegin ==
    /\ opening.pc = "opened"
    /\ opening' = Opening_wait_begin(opening)
    /\ UNCHANGED <<transportVars, kx>>

WaitEnd ==
    /\ opening.pc = "reading"
    /\ opening' = Opening_wait_end(opening)
    /\ UNCHANGED <<transportVars, kx>>

NextOpening ==
    \/ NewBegin
    \/ NewEnd
    \/ WaitBegin
    \/ WaitEnd

SpecOpening == InitOpening /\ [][NextOpening]_vars

\* ----------------------------------------------------------------- claims
\* the plaintext a successful receive handed back
Delivered(pt) == [kind |-> "pt", pt |-> pt]

\* p has so far accepted exactly what its peer sent, in the order sent
InOrderSoFar(p) ==
    /\ Len(recvLog[p]) <= Len(wire[Other(p)])
    /\ \A i \in 1..Len(recvLog[p]) : recvLog[p][i].ct = wire[Other(p)][i].out.ct

\* C1: between calls, each CipherState has been rekeyed exactly once per
\* successful transport operation performed on it: the local one once per
\* successful send, the remote one once per successful receive, on the
\* unsplit session and on the halves alike.
RekeyedAfterEveryOperation ==
    \A p \in Parties :
        /\ LocalOf(party[p]).k.gen = Len(wire[p])
        /\ RemoteOf(party[p]).k.gen = Len(recvLog[p])

RekeyedAfterEveryOperation_witness ==
    /\ last.op = "half_receive" /\ last.ok
    /\ \E p \in Parties :
          /\ party[p].mode = "split"
          /\ Len(wire[p]) >= 1
          /\ Len(recvLog[p]) >= 1
          /\ party[Other(p)].mode = "transport"
          /\ Len(wire[Other(p)]) >= 1

\* C2: plaintexts sent in order come out unchanged, in order, along the whole
\* rekeying chain: every message the peer accepted in order was delivered as
\* the plaintext sent, and the next ciphertext in order, with a buffer of the
\* plaintext's length, is accepted and delivers the plaintext sent.
RoundTripOverRekeyingChain ==
    \A p \in Parties :
        InOrderSoFar(p) =>
            /\ \A i \in 1..Len(recvLog[p]) :
                  recvLog[p][i].out = Delivered(wire[Other(p)][i].pt)
            /\ Len(recvLog[p]) < Len(wire[Other(p)]) =>
                  LET m == wire[Other(p)][Len(recvLog[p]) + 1]
                      r == CallReceive(party[p], m.out.ct, Len(m.pt))
                  IN  r.ok /\ r.out = Delivered(m.pt)

RoundTripOverRekeyingChain_witness ==
    /\ party["initiator"].mode = "transport"
    /\ party["responder"].mode = "transport"
    /\ Len(wire["initiator"]) = MaxMsgs
    /\ Len(recvLog["responder"]) = MaxMsgs
    /\ InOrderSoFar("responder")
    /\ \A i \in 1..MaxMsgs : Len(wire["initiator"][i].pt) > 0
    /\ \A i \in 1..MaxMsgs :
          recvLog["responder"][i].out = Delivered(wire["initiator"][i].pt)

\* C3: no two successful encryptions of one party use the same (key, nonce)
\* pair of its local CipherState, and no two successful decryptions use the
\* same pair of its remote CipherState.
NoKeyNonceReuse ==
    \A p \in Parties :
        /\ \A i, j \in 1..Len(wire[p]) :
              i # j => <<wire[p][i].k, wire[p][i].n>> # <<wire[p][j].k, wire[p][j].n>>
        /\ \A i, j \in 1..Len(recvLog[p]) :
              i # j => <<recvLog[p][i].k, recvLog[p][i].n>>
                         # <<recvLog[p][j].k, recvLog[p][j].n>>

NoKeyNonceReuse_witness ==
    \E p \in Parties :
        /\ Len(wire[p]) >= 2
        /\ Len(recvLog[Other(p)]) >= 2
        /\ last.ok

\* C4: a ciphertext that differs (in the body or in the tag) from the one the
\* peer produced for the receiver's position in the stream is refused, and a
\* receive that returns Ok delivers the plaintext that was sent for that
\* position; nothing else was ever accepted.
TamperDetected ==
    \A p \in Parties :
        LET q == Other(p)
            e == Len(recvLog[p]) + 1
        IN  /\ \A i \in 1..Len(recvLog[p]) :
                  /\ i <= Len(wire[q])
                  /\ recvLog[p][i].ct = wire[q][i].out.ct
                  /\ recvLog[p][i].out = Delivered(wire[q][i].pt)
            /\ \A c \in RecvChoices(p) :
                  \A outlen \in BufLens(Len(RecvInput(p, c).body)) :
                      LET input == RecvInput(p, c)
                          r == CallReceive(party[p], input, outlen)
                          genuine == e <= Len(wire[q]) /\ input = wire[q][e].out.ct
                      IN  /\ ~genuine => ~r.ok
                          /\ r.ok => r.out = Delivered(wire[q][e].pt)

TamperDetected_witness ==
    /\ last.op \in {"receive", "half_receive"}
    /\ last.how \in {"body", "tag"}
    /\ last.fits
    /\ ~last.ok
    /\ \E p \in Parties : Len(recvLog[p]) >= 1

\* C5: after split, a send on the send half and a receive on the receive half
\* commute: in either order the send returns the same result and ciphertext,
\* the receive the same result and plaintext, and both halves end in the same
\* state (so every interleaving of two such sequences agrees with any other).
HalfDuplexIndependence ==
    \A p \in Parties :
        party[p].mode = "split" =>
            \A input \in Plaintexts :
            \A outS \in BufLens(Len(input) + TAG_LEN) :
            \A c \in RecvChoices(p) :
            \A outR \in BufLens(Len(RecvInput(p, c).body)) :
                LET s1 == HalfSendStep(party[p], input, outS)
                    r2 == HalfReceiveStep(s1.st, RecvInput(p, c), outR)
                    r1 == HalfReceiveStep(party[p], RecvInput(p, c), outR)
                    s2 == HalfSendStep(r1.st, input, outS)
                IN  /\ s1.ok = s2.ok /\ s1.out = s2.out
                    /\ r1.ok = r2.ok /\ r1.out = r2.out
                    /\ r2.st = s2.st

HalfDuplexIndependence_witness ==
    /\ last.op = "half_send" /\ last.ok
    /\ \E p \in Parties :
          /\ party[p].mode = "split"
          /\ Len(wire[p]) >= 1
          /\ \E c \in RecvChoices(p) : c.t = "none" /\ c.j = Len(recvLog[p]) + 1

\* C6: split consumes the TransportState and partitions it: the send half
\* holds the former local CipherState, the receive half the former remote
\* one, count_sent and count_received are what they were, and both halves
\* report the noise_session and remote_public_identity of the original.
SplitPartitions ==
    [][\A p \in Parties :
          (party[p].mode = "transport" /\ party'[p].mode = "split") =>
              /\ party'[p].ts = Moved
              /\ party'[p].sh.local = party[p].ts.local
              /\ party'[p].rh.remote = party[p].ts.remote
              /\ TransportSendHalf_count_sent(party'[p].sh) = count_sent(party[p].ts)
              /\ TransportReceiveHalf_count_received(party'[p].rh)
                    = count_received(party[p].ts)
              /\ TransportSendHalf_noise_session(party'[p].sh) = noise_session(party[p].ts)
              /\ TransportReceiveHalf_noise_session(party'[p].rh)
                    = noise_session(party[p].ts)
              /\ TransportSendHalf_remote_public_identity(party'[p].sh)
                    = remote_public_identity(party[p].ts)
              /\ TransportReceiveHalf_remote_public_identity(party'[p].rh)
                    = remote_public_identity(party[p].ts)]_vars

SplitPartitions_witness ==
    /\ last.op = "split"
    /\ \A p \in Parties :
          /\ party[p].mode = "split"
          /\ Len(wire[p]) >= 1
          /\ Len(recvLog[p]) >= 1

\* C7: send fails exactly when the output buffer is shorter than the input
\* plus the 16-byte tag, and then produces no ciphertext; receive fails
\* whenever the output buffer is shorter than the input minus the tag.
BufferSizeContract ==
    /\ last.op \in {"send", "half_send"} => (last.ok <=> last.fits)
    /\ last.op \in {"receive", "half_receive"} => (~last.fits => ~last.ok)
    /\ \A p \in Parties :
          /\ \A input \in Plaintexts :
              \A outlen \in BufLens(Len(input) + TAG_LEN) :
                  LET r == CallSend(party[p], input, outlen)
                  IN  /\ r.ok <=> outlen >= Len(input) + 16
                      /\ ~r.ok => r.out = NoOutput
          /\ \A c \in RecvChoices(p) :
              \A outlen \in BufLens(Len(RecvInput(p, c).body)) :
                  LET r == CallReceive(party[p], RecvInput(p, c), outlen)
                  IN  outlen < CtLen(RecvInput(p, c)) - 16 => ~r.ok /\ r.out = NoOutput

BufferSizeContract_witness ==
    /\ last.op = "send" /\ ~last.fits /\ ~last.ok
    /\ \E p \in Parties : Len(wire[p]) >= 1 /\ party[p].mode = "transport"

\* C8: once every message a party sent has been received by its peer, the
\* sender's count_sent() equals the receiver's count_received(), in each
\* direction.
CounterLockstep ==
    \A p \in Parties :
        Len(recvLog[Other(p)]) = Len(wire[p]) =>
            CountSent(party[p]) = CountReceived(party[Other(p)])

CounterLockstep_witness ==
    /\ last.op = "receive" /\ last.ok
    /\ \A p \in Parties :
          /\ party[p].mode = "transport"
          /\ Len(wire[p]) >= 1
          /\ Len(recvLog[Other(p)]) = Len(wire[p])

\* C9: count_sent() is its value at creation plus the number of successful
\* sends, and count_received() its value at creation plus the number of
\* successful receives.
CountsMessages ==
    \A p \in Parties :
        /\ CountSent(party[p]) = created[p].sent + Len(wire[p])
        /\ CountReceived(party[p]) = created[p].received + Len(recvLog[p])

\* C10: both parties report one noise_session() value, and that value and
\* remote_public_identity() are, on the session and on both halves, what they
\* were at creation, whatever was sent, received or split since.
SessionAgreementAndStability ==
    /\ \A p, q \in Parties : NoiseSessions(party[p]) = NoiseSessions(party[q])
    /\ \A p \in Parties :
          /\ NoiseSessions(party[p]) = {created[p].session}
          /\ RemoteIdentities(party[p]) = {created[p].remote_id}

SessionAgreementAndStability_witness ==
    /\ last.op = "half_receive" /\ last.ok
    /\ party["initiator"].mode = "split"
    /\ party["responder"].mode = "transport"
    /\ \E p \in Parties : Len(wire[p]) >= 1 /\ Len(recvLog[p]) >= 1

\* C16: a receiver that has accepted k messages accepts, of the ciphertexts
\* its peer produced, only the (k+1)-th: an already accepted one (replay) and
\* a later one while an earlier is missing (skip) are refused, and the
\* (k+1)-th is accepted when the buffer holds the plaintext.
StrictInOrderDelivery ==
    /\ (last.op \in {"receive", "half_receive"} /\ last.how \in {"replay", "skip"})
          => ~last.ok
    /\ \A p \in Parties :
          /\ InOrderSoFar(p)
          /\ \A c \in RecvChoices(p) :
                c.t = "none" =>
                    \A outlen \in BufLens(Len(RecvInput(p, c).body)) :
                        LET r == CallReceive(party[p], RecvInput(p, c), outlen)
                            next == c.j = Len(recvLog[p]) + 1
                        IN  /\ r.ok => next
                            /\ (next /\ outlen >= Len(RecvInput(p, c).body)) => r.ok

StrictInOrderDelivery_witness ==
    /\ last.op = "receive" /\ last.how = "replay" /\ last.fits /\ ~last.ok
    /\ \E p \in Parties :
          /\ party[p].mode = "transport"
          /\ Len(recvLog[p]) = 1
          /\ Len(wire[Other(p)]) = MaxMsgs

\* C17: a send or receive that returns an error applies no rekey: the key of
\* each direction stays at the generation it had, the CipherState of the
\* direction not involved, the handshake hash and the remote identity are
\* unchanged, and nothing is put on the wire or accepted.
NoRekeyOnFailure ==
    [][(last'.op \in {"send", "half_send", "receive", "half_receive"} /\ ~last'.ok) =>
          /\ \A p \in Parties :
                /\ LocalOf(party'[p]).k = LocalOf(party[p]).k
                /\ RemoteOf(party'[p]).k = RemoteOf(party[p]).k
                /\ last'.op \in {"send", "half_send"} =>
                      RemoteOf(party'[p]) = RemoteOf(party[p])
                /\ last'.op \in {"receive", "half_receive"} =>
                      LocalOf(party'[p]) = LocalOf(party[p])
                /\ NoiseSessions(party'[p]) = NoiseSessions(party[p])
                /\ RemoteIdentities(party'[p]) = RemoteIdentities(party[p])
          /\ UNCHANGED <<wire, recvLog>>]_vars

NoRekeyOnFailure_witness ==
    /\ last.op = "send" /\ ~last.ok /\ ~last.fits
    /\ \E p \in Parties :
          /\ party[p].mode = "transport"
          /\ LocalOf(party[p]).k.gen = 1
          /\ RemoteOf(party[p]).k.gen = 1

\* C18: on the unsplit session a send, whether it succeeds or not, leaves the
\* remote CipherState, count_received(), noise_session() and
\* remote_public_identity() as they were, and a receive leaves the local
\* CipherState, count_sent(), noise_session() and remote_public_identity().
DirectionFrame ==
    [][\A p \in Parties :
          (party[p].mode = "transport" /\ party'[p].mode = "transport") =>
              /\ noise_session(party'[p].ts) = noise_session(party[p].ts)
              /\ remote_public_identity(party'[p].ts) = remote_public_identity(party[p].ts)
              /\ last'.op = "send" =>
                    /\ party'[p].ts.remote = party[p].ts.remote
                    /\ count_received(party'[p].ts) = count_received(party[p].ts)
              /\ last'.op = "receive" =>
                    /\ party'[p].ts.local = party[p].ts.local
                    /\ count_sent(party'[p].ts) = count_sent(party[p].ts)]_vars

DirectionFrame_witness ==
    /\ last.op = "send" /\ last.ok
    /\ \E p \in Parties :
          /\ party[p].mode = "transport"
          /\ Len(wire[p]) = 1
          /\ Len(recvLog[p]) = 1
          /\ party[p].ts.remote.k.gen = 1

\* C19: the halves simulate the session they were split from.  For a session
\* ts and its halves split(ts), every send gives the same result and output
\* on the send half as on ts, every receive the same on the receive half,
\* the counters agree afterwards, and the halves after the call are the
\* halves of the session after the call; so call sequences agree step by step.
HalvesRefineSession ==
    \A p \in Parties :
        party[p].mode = "transport" =>
            LET ts == party[p].ts
                h == split(ts)
            IN  /\ TransportSendHalf_count_sent(h.send) = count_sent(ts)
                /\ TransportReceiveHalf_count_received(h.receive) = count_received(ts)
                /\ \A input \in Plaintexts :
                    \A outlen \in BufLens(Len(input) + TAG_LEN) :
                        LET a == TransportState_send(ts, input, outlen)
                            b == TransportSendHalf_send(h.send, input, outlen)
                        IN  /\ a.ok = b.ok /\ a.out = b.out
                            /\ TransportSendHalf_count_sent(b.self) = count_sent(a.self)
                            /\ split(a.self) = [send |-> b.self, receive |-> h.receive]
                /\ \A c \in RecvChoices(p) :
                    \A outlen \in BufLens(Len(RecvInput(p, c).body)) :
                        LET a == TransportState_receive(ts, RecvInput(p, c), outlen)
                            b == TransportReceiveHalf_receive(h.receive, RecvInput(p, c), outlen)
                        IN  /\ a.ok = b.ok /\ a.out = b.out
                            /\ TransportReceiveHalf_count_received(b.self)
                                  = count_received(a.self)
                            /\ split(a.self) = [send |-> h.send, receive |-> b.self]

HalvesRefineSession_witness ==
    /\ last.op = "receive" /\ last.ok
    /\ \E p \in Parties :
          /\ party[p].mode = "transport"
          /\ Len(recvLog[p]) >= 1
          /\ \E c \in RecvChoices(p) : c.t = "none" /\ c.j = Len(recvLog[p]) + 1

\* ------------------------------------------------------------------- keys
(***************************************************************************)
(* The Dh capability over the four key kinds (keynesis-core/src/key/       *)
(* mod.rs) and the hierarchical derivation of ed25519_hd keys shown in the *)
(* module documentation.  The curve arithmetic lives in the key modules    *)
(* and is idealised here: the group is the additive group of Scalars with  *)
(* base point 1, so a public key is its secret scalar, an exchange is a    *)
(* product, and the point 0 is the identity.  Derivation is the one the    *)
(* documentation names ("just like with BIP32", with byte paths): the      *)
(* child is the parent shifted by a tweak computed from public data.       *)
(***************************************************************************)
Scalars == {0, 1, 2, 3, 4}
Order == Cardinality(Scalars)
ChainCodes == {0, 1}
Paths == {<<0>>, <<1>>, <<0, 1>>}
KeyKinds == {"curve25519", "ed25519", "ed25519_extended", "ed25519_hd"}
None == [some |-> FALSE]
Some(v) == [some |-> TRUE, value |-> v]

IsIdentity(point) == point = 0

\* SecretKey::public_key and SecretKey::exchange of the plain key kinds
public_key(sk) == sk.scalar % Order
exchange(sk, public) == [shared |-> (sk.scalar * public) % Order]

RECURSIVE PathSum(_)
PathSum(path) == IF path = <<>> THEN 0 ELSE Head(path) + 1 + 2 * PathSum(Tail(path))

\* what a derivation step adds, computed from the parent's public half only
Tweak(point, chain_code, path) == (point + 2 * chain_code + PathSum(path)) % Order
ChildCode(point, chain_code, path) == (point + chain_code + Len(path)) % 2

\* ed25519_hd keys: a key and a chain code
hd_key(sk) == sk.key
hd_public_key(sk) == [key |-> public_key(sk.key), chain_code |-> sk.chain_code]

hd_derive(sk, path) ==
    LET point == public_key(sk.key)
    IN  [key |-> [scalar |-> (sk.key.scalar + Tweak(point, sk.chain_code, path)) % Order],
         chain_code |-> ChildCode(point, sk.chain_code, path)]

hd_public_derive(pk, path) ==
    LET child == (pk.key + Tweak(pk.key, pk.chain_code, path)) % Order
    IN  IF IsIdentity(child) THEN None
        ELSE Some([key |-> child, chain_code |-> ChildCode(pk.key, pk.chain_code, path)])

\* impl Dh for curve25519::SecretKey
Dh_curve25519_public(self) == public_key(self)
Dh_curve25519_dh(self, public) == exchange(self, public)

\* impl Dh for ed25519::SecretKey
Dh_ed25519_public(self) == public_key(self)
Dh_ed25519_dh(self, public) == exchange(self, public)

\* impl Dh for ed25519_extended::SecretKey
Dh_ed25519_extended_public(self) == public_key(self)
Dh_ed25519_extended_dh(self, public) == exchange(self, public)

\* public that takes the chain code for the key
Dh_ed25519_hd_public_of_chain_code(self) == public_key([scalar |-> self.chain_code])

\* dh that takes the chain code for the key
Dh_ed25519_hd_dh_with_chain_code(self, public) ==
    exchange([scalar |-> self.chain_code], public)

\* impl Dh for ed25519_hd::SecretKey
Dh_ed25519_hd_public(self) == public_key(hd_key(self))
Dh_ed25519_hd_dh(self, public) == exchange(hd_key(self), public)

\* Dh::dh for a key of the given kind; it returns a SharedSecret, always
Dh_dh(kind, self, public) ==
    CASE kind = "curve25519" -> Dh_curve25519_dh(self, public)
      [] kind = "ed25519" -> Dh_ed25519_dh(self, public)
      [] kind = "ed25519_extended" -> Dh_ed25519_extended_dh(self, public)
      [] OTHER -> Dh_ed25519_hd_dh(self, public)

\* a key of the given kind made from an ed25519_hd root
KeyOfKind(kind, root) == IF kind = "ed25519_hd" THEN root ELSE hd_key(root)

RootKeys == [key : [scalar : Scalars \ {0}], chain_code : ChainCodes]

InitKeys ==
    /\ \E alice \in RootKeys, bob \in RootKeys :
         kx = [pc |-> "roots", alice |-> alice, bob |-> bob]
    /\ party = [p \in Parties |-> Moved]
    /\ wire = [p \in Parties |-> <<>>]
    /\ recvLog = [p \in Parties |-> <<>>]
    /\ created = [p \in Parties |-> Moved]
    /\ last = [op |-> "none", ok |-> TRUE, how |-> "none", fits |-> TRUE]
    /\ opening = NotStarted

\* alice derives her key for bob and bob's public key for her, and bob the
\* same the other way round (the documentation's example, any two paths)
Derive ==
    /\ kx.pc = "roots"
    /\ \E p \in Paths, q \in Paths :
         kx' = [pc |-> "derived", alice |-> kx.alice, bob |-> kx.bob, p |-> p, q |-> q,
                alice_child |-> hd_derive(kx.alice, p),
                bob_child |-> hd_derive(kx.bob, q),
                alice_public_child |-> hd_public_derive(hd_public_key(kx.alice), p),
                bob_public_child |-> hd_public_derive(hd_public_key(kx.bob), q)]
    /\ UNCHANGED <<transportVars, opening>>

Exchange ==
    /\ kx.pc = "derived"
    /\ kx.alice_public_child.some /\ kx.bob_public_child.some
    /\ kx' = [kx EXCEPT
                 !.pc = "exchanged",
                 !.alice = [shared_secret |->
                              Dh_ed25519_hd_dh(kx.alice_child, kx.bob_public_child.value.key)],
                 !.bob = [shared_secret |->
                            Dh_ed25519_hd_dh(kx.bob_child, kx.alice_public_child.value.key)]]
    /\ UNCHANGED <<transportVars, opening>>

\* a dh call with whatever 32 bytes the peer supplied as its public key
DhCall ==
    /\ kx.pc = "roots"
    /\ \E kind \in KeyKinds, public \in Scalars :
         kx' = [pc |-> "dh_returned", alice |-> kx.alice, bob |-> kx.bob,
                kind |-> kind, public |-> public,
                returned |-> [type |-> "SharedSecret",
                              value |-> Dh_dh(kind, KeyOfKind(kind, kx.alice), public)]]
    /\ UNCHANGED <<transportVars, opening>>

NextKeys ==
    \/ Derive
    \/ Exchange
    \/ DhCall

SpecKeys == InitKeys /\ [][NextKeys]_vars

\* --------------------------------------------------------- claims on keys
\* C13: the shared secret alice computes from her derived secret key and
\* bob's derived public key equals the one bob computes from his derived
\* secret key and alice's derived public key, for any roots and paths for
\* which both public derivations succeed.
SharedSecretAgreement ==
    kx.pc = "exchanged" => kx.alice.shared_secret = kx.bob.shared_secret

SharedSecretAgreement_witness ==
    /\ kx.pc = "exchanged"
    /\ kx.p # kx.q
    /\ kx.alice_child.key # kx.bob_child.key
    /\ kx.alice.shared_secret.shared # 0

InvalidPeerKeyRejected ==
    (kx.pc = "dh_returned" /\ IsIdentity(kx.public)) => kx.returned.type = "Err"

\* ------------------------------------------------------ claims on Opening
Happened(e) == \E i \in 1..Len(opening.events) : opening.events[i] = e

IsPrefix(s, t) == Len(s) <= Len(t) /\ s = SubSeq(t, 1, Len(s))

\* wait has been called on the Opening
Waited ==
    \/ opening.pc = "reading"
    \/ opening.pc = "done"
          /\ opening.result \in {"Handle", "Err_read", "Err_version", "Err_receive"}

AnswerAccepted ==
    /\ opening.peer.arrival = "complete"
    /\ is_supported(opening.peer.version)
    /\ IK_receive(opening.peer.payload)

\* C11: wait returns a Handle only if reading the response, the version
\* check and IK receive all succeeded; if one of them fails wait returns an
\* error, no transport session exists, and once wait has been called the
\* WaitB state is gone from the Opening: wait cannot be called again.
HandleOnlyAfterFullHandshake ==
    /\ opening.result = "Handle" =>
          /\ AnswerAccepted
          /\ Happened("read") /\ Happened("version") /\ Happened("ik_receive")
          /\ opening.transport = "authenticated"
    /\ opening.result # "Handle" => opening.transport = "none"
    /\ (Waited /\ opening.pc = "done" /\ ~AnswerAccepted) =>
          /\ opening.result \in {"Err_read", "Err_version", "Err_receive"}
          /\ opening.state = "dropped"
    /\ Waited => opening.state # "in_opening" /\ ~ENABLED WaitBegin
    /\ opening.pc = "done" => ~ENABLED NextOpening

HandleOnlyAfterFullHandshake_witness ==
    /\ opening.result = "Err_receive"
    /\ opening.peer.payload = "forged"
    /\ is_supported(opening.peer.version)
    /\ opening.state = "dropped"

\* C12: when the response declares an unsupported version, wait returns an
\* error without IK receive ever being called on the message, and no Handle
\* and no transport session is produced.
VersionMismatchShortCircuits ==
    ~is_supported(opening.peer.version) =>
        /\ opening.ik_receive_calls = 0
        /\ ~Happened("ik_receive")
        /\ opening.result # "Handle"
        /\ opening.transport = "none"
        /\ Happened("version") => opening.pc = "done" /\ opening.result = "Err_version"

VersionMismatchShortCircuits_witness ==
    /\ opening.result = "Err_version"
    /\ opening.peer.payload = "valid"
    /\ opening.peer.arrival = "complete"

\* C20: the initiator's steps happen in the order initiate, write message 1,
\* read message 2, version check, IK receive, Handle; an Opening exists only
\* after initiate succeeded and message 1 was written in full; nothing is
\* written when initiate fails; message 2 is read or processed only after
\* message 1 has been written.
InitiatorHandshakeOrder ==
    /\ IsPrefix(opening.events, HandshakeOrder)
    /\ opening.state = "in_opening" =>
          /\ opening.events = <<"initiate", "write">>
          /\ opening.written = "message1"
    /\ opening.result = "Err_initiate" =>
          /\ opening.written = "nothing"
          /\ opening.events = <<>>
    /\ (Waited \/ Happened("read") \/ Happened("version") \/ Happened("ik_receive")) =>
          /\ Happened("write")
          /\ opening.written = "message1"

InitiatorHandshakeOrder_witness ==
    /\ opening.result = "Handle"
    /\ opening.events = HandshakeOrder

====
